---- MODULE Spec2Model ----
(***************************************************************************)
(* A model of src/ddpg.py: the DDPG agent controller (class DDPG and the   *)
(* module functions hard_update / soft_update).                            *)
(*                                                                         *)
(* Two specifications are given:                                           *)
(*   Spec      - a caller drives the public operations of one constructed  *)
(*               agent (observe, select_action, reset, update_policy,      *)
(*               save_model, load_weights, hard_update, soft_update, ...)  *)
(*               in any order, and may flip the public flag is_training.   *)
(*   SpecTrain - one execution of DDPG.train on a freshly constructed      *)
(*               agent, one action per statement group of the loop body.   *)
(*                                                                         *)
(* Numbers: network parameters, observations, rewards, actions and noise   *)
(* are small integers.  Optional values (Python None) are sequences of     *)
(* length 0 or 1.  A method that can raise is given as a result record     *)
(* (the exception, or "none", and the values it leaves behind).            *)
(*                                                                         *)
(* Collaborators whose files (model.py, memory.py, random_process.py) are  *)
(* not part of src/ are modelled from the specification text; they are     *)
(* grouped in the section "Collaborators".                                 *)
(***************************************************************************)
EXTENDS Integers, Sequences, FiniteSets, TLC

VARIABLES
    net,            \* the four approximator references: field |-> object id
    heap,           \* object id |-> parameter list of that approximator
    grad,           \* object id |-> accumulated .grad of its parameters
    memory,         \* self.memory: the stored transitions, oldest first
    x_noise,        \* self.random_process: the OU state x
    is_training,    \* self.is_training
    s_t,            \* self.s_t  (None or an observation)
    a_t,            \* self.a_t  (None or an action)
    files,          \* the output directory: file name |-> None or state dict
    critic_keys,    \* the keys of Critic's state dict, in parameter order
    last,           \* the last public call: operation, arguments, outcome
    calls,          \* number of public calls made so far (Spec)
    agent_bound,    \* whether the module global `agent` is bound (to self)
    pc,             \* train: position in the loop
    num_iter,       \* train: argument
    max_episode_length, \* train: argument (0 stands for None)
    step,           \* train: local
    episode,        \* train: local
    episode_steps,  \* train: local
    episode_reward, \* train: local
    observation,    \* train: local (None or an observation)
    exc             \* train: the exception that ended it, or "none"

agent_vars == <<net, heap, grad, memory, x_noise, is_training, s_t, a_t,
                files, critic_keys>>
train_vars == <<pc, num_iter, max_episode_length, step, episode,
                episode_steps, episode_reward, observation, exc>>
vars == <<agent_vars, last, calls, agent_bound, train_vars>>

----------------------------------------------------------------------------
(* Bounds of the model                                                     *)

MaxCalls == 3       \* public calls per behaviour of Spec
MaxIter == 5        \* largest num_iter given to train
MaxEpLen == 2       \* largest max_episode_length given to train

Obs == 0 .. 1               \* observations the environment produces
Rewards == 0 .. 1           \* rewards the environment produces
Gauss == {-1, 1}            \* draws of sigma * N(0,1), rounded
EnvStart == Obs             \* observations env.reset returns during train
InitWeights == {<<0, 1>>, <<1, 0>>}  \* freshly initialised parameter lists
Grads == {<<0, 0>>, <<1, -1>>}  \* gradients a backward pass produces
ActorKeys == <<"w", "b">>   \* the keys of Actor's state dict
CriticKeys ==               \* state-dict keys Critic may have
    {<<"w", "b">>, <<"w", "cb">>, <<"cw", "b">>, <<"cw", "cb">>}

None == <<>>
Some(v) == <<v>>

----------------------------------------------------------------------------
(* Program constants (src/ddpg.py:19, 21).  TAU = 0.01 is the fraction     *)
(* TAU_NUM / TAU_DEN.  BATCH_SIZE and ignore_step take no part: the code   *)
(* that reads them changes no state before it raises (update_policy) or is *)
(* never reached (line 189 of train).                                      *)

RMSIZE == 100000
TAU_NUM == 1
TAU_DEN == 100

----------------------------------------------------------------------------
(* Collaborators (model.py, memory.py, random_process.py, torch)           *)

\* Actor.forward: a deterministic function of the parameters and the state
\* (one linear unit: weight * state + bias).
Actor(p, s) == p[1] * s + p[2]

\* SequentialMemory.append(observation, action, reward, terminal): the
\* transition goes to the end; at capacity the oldest entry is evicted.
Transition(o, a, r, d) ==
    [observation |-> o, action |-> a, reward |-> r, terminal |-> d]

append(m, o, a, r, d) ==
    IF Len(m) < RMSIZE
    THEN Append(m, Transition(o, a, r, d))
    ELSE Append(Tail(m), Transition(o, a, r, d))

\* OUProcess: x0 is the zero vector, mu = 0, dt = 1.  sample() computes
\* x + theta*(mu - x)*dt + sigma*sqrt(dt)*N(0,1), stores it and returns it;
\* the mean reversion theta*(mu - x) is half of x, rounded towards zero, and
\* g is the scaled Gaussian draw.  reset_states() puts x back to x0.
Sign(v) == IF v > 0 THEN 1 ELSE IF v < 0 THEN -1 ELSE 0

OU_x0 == 0

Revert(x) == IF x >= 0 THEN -(x \div 2) ELSE (-x) \div 2

sample(x, g) == x + Revert(x) + g

reset_states == OU_x0

\* The keys of a module's state dict, one per parameter.  A key stands for
\* the parameter's name and shape together.  Actor's are fixed; Critic's
\* (critic_keys) may share all, some or none of them.
KeysOf(field) ==
    IF field \in {"actor", "actor_target"} THEN ActorKeys ELSE critic_keys

\* Module.state_dict(): the keys and the parameter values
state_dict(field) == [keys |-> KeysOf(field), values |-> heap[net[field]]]

\* Module.load_state_dict(sd) (strict) on a module with parameters p under
\* keys: every parameter whose key is in sd takes the value sd has for it;
\* after that, RuntimeError is raised when a key of the module is missing
\* from sd or sd has a key the module does not have.
load_state_dict(p, keys, sd) ==
    LET Has(k) == \E j \in 1 .. Len(sd.keys) : sd.keys[j] = k
        At(k) == sd.values[CHOOSE j \in 1 .. Len(sd.keys) : sd.keys[j] = k]
        mine == {keys[i] : i \in 1 .. Len(keys)}
        theirs == {sd.keys[j] : j \in 1 .. Len(sd.keys)}
    IN  [exc |-> IF mine = theirs THEN "none" ELSE "RuntimeError",
         params |-> [i \in 1 .. Len(p) |->
                        IF Has(keys[i]) THEN At(keys[i]) ELSE p[i]]]

\* One optimizer step on a parameter list with accumulated gradient g: each
\* parameter moves one step against the sign of its gradient.
optim_step(p, g) == [i \in 1 .. Len(p) |-> p[i] - Sign(g[i])]

\* backward(): the new gradient is added to the accumulated one.
accumulate(g, d) == [i \in 1 .. Len(g) |-> g[i] + d[i]]

zero_grad(g) == [i \in 1 .. Len(g) |-> 0]

----------------------------------------------------------------------------
(* src/ddpg.py: module functions                                           *)

\* zip(target.parameters(), source.parameters()): the index pairs
ZipIdx(tp, sp) == 1 .. (IF Len(tp) < Len(sp) THEN Len(tp) ELSE Len(sp))

\* A faulty hard_update that leaves the last parameter out; C3 must fail
\* for it.
hard_update_mut(h, target, source) ==
    [h EXCEPT ![target] =
        [i \in 1 .. Len(h[target]) |->
            IF i \in ZipIdx(h[target], h[source]) /\ i < Len(h[target])
            THEN h[source][i] ELSE h[target][i]]]

\* hard_update (lines 30-35): every zipped target parameter takes the value
\* of its source parameter.
hard_update(h, target, source) ==
    [h EXCEPT ![target] =
        [i \in 1 .. Len(h[target]) |->
            IF i \in ZipIdx(h[target], h[source])
            THEN h[source][i] ELSE h[target][i]]]

\* soft_update (lines 38-45): the argument of copy_ reads target.param, an
\* attribute no Module has, so the first loop iteration raises
\* AttributeError before anything is copied.  With no parameter pair the
\* loop body never runs and the call returns.
soft_update(h, target, source, tau_num, tau_den) ==
    IF ZipIdx(h[target], h[source]) # {}
    THEN [exc |-> "AttributeError", heap |-> h]
    ELSE [exc |-> "none", heap |-> h]

\* to_tensor (lines 53-56): line 55 calls torch.from_numpy(ndarray=ndarray).
\* from_numpy is a builtin that takes its one argument by position only, so
\* the keyword call raises TypeError and no tensor is made.
to_tensor(ndarray) == [exc |-> "TypeError", value |-> None]

----------------------------------------------------------------------------
(* src/ddpg.py: DDPG.__init__ (lines 59-84)                                *)

NetIds == 1 .. 4

\* lines 63-69: four separately constructed approximators
NewNet ==
    [actor |-> 1, actor_target |-> 2, critic |-> 3, critic_target |-> 4]

\* lines 63-72: fresh weights wa, wat, wc, wct, then the two hard updates
NewHeap(wa, wat, wc, wct) ==
    LET h0 == [i \in NetIds |->
                 IF i = NewNet.actor THEN wa
                 ELSE IF i = NewNet.actor_target THEN wat
                 ELSE IF i = NewNet.critic THEN wc ELSE wct]
        h1 == hard_update(h0, NewNet.actor_target, NewNet.actor)
    IN  hard_update(h1, NewNet.critic_target, NewNet.critic)

NoCall == [op |-> "none", exc |-> "none"]

Constructed(ActorWeights, CriticWeights) ==
    /\ net = NewNet
    /\ heap \in {NewHeap(wa, wat, wc, wct) :
                    wa \in ActorWeights, wat \in InitWeights,
                    wc \in CriticWeights, wct \in InitWeights}
    /\ grad = [i \in NetIds |-> <<0, 0>>]
    /\ memory = <<>>
    /\ x_noise = OU_x0
    /\ is_training = TRUE
    /\ s_t = None
    /\ a_t = None
    /\ files = [f \in {"actor.pth", "critic.pth"} |-> None]
    /\ last = NoCall
    /\ calls = 0

TrainIdle ==
    /\ pc = "idle"
    /\ num_iter = 0
    /\ max_episode_length = 0
    /\ step = 0
    /\ episode = 0
    /\ episode_steps = 0
    /\ episode_reward = 0
    /\ observation = None
    /\ exc = "none"

Init ==
    /\ Constructed(InitWeights, InitWeights)
    /\ critic_keys \in CriticKeys
    /\ agent_bound = FALSE
    /\ TrainIdle

----------------------------------------------------------------------------
(* src/ddpg.py: the methods of DDPG, as changes of the agent's state       *)

\* bool * ndarray, as in `self.is_training * self.random_process.sample()`
Times(b, v) == IF b THEN v ELSE 0

\* A faulty observe that ignores is_training; C1 must fail for it.
observe_mut(r_t, s_t1, d) ==
    /\ memory' = append(memory, s_t, a_t, r_t, d)
    /\ s_t' = Some(s_t1)
    /\ UNCHANGED <<net, heap, grad, x_noise, is_training, a_t, files, critic_keys>>

\* observe (lines 96-99)
observe(r_t, s_t1, d) ==
    /\ IF is_training
       THEN /\ memory' = append(memory, s_t, a_t, r_t, d)
            /\ s_t' = Some(s_t1)
       ELSE UNCHANGED <<memory, s_t>>
    /\ UNCHANGED <<net, heap, grad, x_noise, is_training, a_t, files, critic_keys>>

\* random_action (lines 101-104); u is the uniform draw
random_action(u) ==
    /\ a_t' = Some(u)
    /\ UNCHANGED <<net, heap, grad, memory, x_noise, is_training, s_t, files,
                   critic_keys>>

\* select_action (lines 106-110); g is the Gaussian draw inside sample().
\* Line 107 builds the actor's input with to_tensor, which raises: a_t and
\* the noise state stay as they were.  Past line 107 the sample would be
\* drawn whatever is_training is, and multiplied by the flag.
select_action_result(s, g) ==
    LET t == to_tensor(Some(s))
    IN  IF t.exc # "none"
        THEN [exc |-> t.exc, ret |-> None, a_t |-> a_t, x_noise |-> x_noise]
        ELSE LET x1 == sample(x_noise, g)
                 a  == Actor(heap[net.actor], t.value[1])
                         + Times(is_training, x1)
             IN  [exc |-> "none", ret |-> Some(a), a_t |-> Some(a),
                  x_noise |-> x1]

select_action(s, g) ==
    /\ x_noise' = select_action_result(s, g).x_noise
    /\ a_t' = select_action_result(s, g).a_t
    /\ UNCHANGED <<net, heap, grad, memory, is_training, s_t, files, critic_keys>>

\* reset (lines 112-114)
reset(obs) ==
    /\ s_t' = Some(obs)
    /\ x_noise' = reset_states
    /\ UNCHANGED <<net, heap, grad, memory, is_training, a_t, files, critic_keys>>

\* save_model (lines 128-136): the actor's state dict goes to actor.pth, the
\* critic's to critic.pth.
save_model ==
    /\ files' = [files EXCEPT !["actor.pth"] = Some(state_dict("actor")),
                              !["critic.pth"] = Some(state_dict("critic"))]
    /\ UNCHANGED <<net, heap, grad, memory, x_noise, is_training, s_t, a_t,
                   critic_keys>>

\* load_weights (lines 116-126).  output is None or Some(directory).  Both
\* torch.load calls read actor.pth.  The result is the heap afterwards and
\* the exception raised, if any: a load_state_dict that raises has already
\* copied the entries whose keys match.
load_weights_result(output) ==
    IF output = None THEN [exc |-> "none", heap |-> heap]
    ELSE IF files["actor.pth"] = None
    THEN [exc |-> "FileNotFoundError", heap |-> heap]
    ELSE LET sd == files["actor.pth"][1]
             la == load_state_dict(heap[net.actor], KeysOf("actor"), sd)
             h1 == [heap EXCEPT ![net.actor] = la.params]
             lc == load_state_dict(h1[net.critic], KeysOf("critic"), sd)
             h2 == [h1 EXCEPT ![net.critic] = lc.params]
         IN  IF la.exc # "none"
             THEN [exc |-> la.exc, heap |-> h1]
             ELSE [exc |-> lc.exc, heap |-> h2]

load_weights(output) ==
    /\ heap' = load_weights_result(output).heap
    /\ UNCHANGED <<net, grad, memory, x_noise, is_training, s_t, a_t, files,
                   critic_keys>>

\* update_policy (lines 138-168).  After sample_and_split (no state of the
\* model changes) line 143 calls to_tensor, which raises before any backward
\* pass or optimizer step.  Past it: gv, gta and gtc are the gradients of the
\* critic loss with respect to the critic, actor_target and critic_target
\* (the target value is built from the target networks without detach), ga
\* and gc the gradients of the actor loss with respect to the actor and the
\* critic; only the optimizers' own parameters are zeroed.
update_policy_result(gv, gta, gtc, ga, gc) ==
    LET c   == net.critic
        a   == net.actor
        t   == to_tensor(memory)
        gc1 == accumulate(grad[c], gv)            \* value_loss.backward()
        gt1 == accumulate(grad[net.actor_target], gta)
        gt2 == accumulate(grad[net.critic_target], gtc)
        pc1 == optim_step(heap[c], gc1)           \* critic_optim.step()
        gc2 == zero_grad(gc1)                     \* critic_optim.zero_grad()
        ga1 == accumulate(grad[a], ga)            \* policy_loss.backward()
        gc3 == accumulate(gc2, gc)                \*   ... through the critic
        pa1 == optim_step(heap[a], ga1)           \* actor_optim.step()
        ga2 == zero_grad(ga1)                     \* actor_optim.zero_grad()
        h1  == [heap EXCEPT ![c] = pc1, ![a] = pa1]
        g1  == [grad EXCEPT ![c] = gc3, ![a] = ga2,
                            ![net.actor_target] = gt1,
                            ![net.critic_target] = gt2]
        su1 == soft_update(h1, net.actor_target, a, TAU_NUM, TAU_DEN)
        su2 == soft_update(su1.heap, net.critic_target, c, TAU_NUM, TAU_DEN)
    IN  IF t.exc # "none"
        THEN [exc |-> t.exc, heap |-> heap, grad |-> grad]
        ELSE IF su1.exc # "none"
        THEN [exc |-> su1.exc, heap |-> su1.heap, grad |-> g1]
        ELSE [exc |-> su2.exc, heap |-> su2.heap, grad |-> g1]

update_policy(gv, gta, gtc, ga, gc) ==
    /\ heap' = update_policy_result(gv, gta, gtc, ga, gc).heap
    /\ grad' = update_policy_result(gv, gta, gtc, ga, gc).grad
    /\ UNCHANGED <<net, memory, x_noise, is_training, s_t, a_t, files, critic_keys>>

----------------------------------------------------------------------------
(* Spec: a caller invokes the public operations on the constructed agent.  *)
(* `last` records the call, its arguments, what it returned and what it    *)
(* raised.                                                                 *)

CanCall == pc = "idle" /\ calls < MaxCalls

Public(call) ==
    /\ calls' = calls + 1
    /\ last' = call
    /\ UNCHANGED <<agent_bound, train_vars>>

CallObserve ==
    /\ CanCall
    /\ \E r_t \in Rewards, s_t1 \in Obs, d \in BOOLEAN :
        /\ observe(r_t, s_t1, d)
        /\ Public([op |-> "observe", exc |-> "none", r_t |-> r_t,
                   s_t1 |-> s_t1, done |-> d])

CallRandomAction ==
    /\ CanCall
    /\ \E u \in -1 .. 1 :
        /\ random_action(u)
        /\ Public([op |-> "random_action", exc |-> "none", ret |-> u])

CallSelectAction ==
    /\ CanCall
    /\ \E s \in Obs, g \in Gauss :
        /\ select_action(s, g)
        /\ Public([op |-> "select_action",
                   exc |-> select_action_result(s, g).exc, s |-> s,
                   ret |-> select_action_result(s, g).ret])

CallReset ==
    /\ CanCall
    /\ \E obs \in Obs :
        /\ reset(obs)
        /\ Public([op |-> "reset", exc |-> "none", obs |-> obs])

CallSaveModel ==
    /\ CanCall
    /\ save_model
    /\ Public([op |-> "save_model", exc |-> "none"])

CallLoadWeights ==
    /\ CanCall
    /\ \E output \in {None, Some("out")} :
        /\ load_weights(output)
        /\ Public([op |-> "load_weights",
                   exc |-> load_weights_result(output).exc,
                   output |-> output])

CallUpdatePolicy ==
    /\ CanCall
    /\ \E gv, gta, gtc, ga, gc \in Grads :
        /\ update_policy(gv, gta, gtc, ga, gc)
        /\ Public([op |-> "update_policy",
                   exc |-> update_policy_result(gv, gta, gtc, ga, gc).exc])

UpdatePairs == {<<"actor_target", "actor">>, <<"critic_target", "critic">>}

CallHardUpdate ==
    /\ CanCall
    /\ \E pr \in UpdatePairs :
        /\ heap' = hard_update(heap, net[pr[1]], net[pr[2]])
        /\ UNCHANGED <<net, grad, memory, x_noise, is_training, s_t, a_t,
                       files, critic_keys>>
        /\ Public([op |-> "hard_update", exc |-> "none", target |-> pr[1],
                   source |-> pr[2], before |-> heap[net[pr[1]]]])

CallSoftUpdate ==
    /\ CanCall
    /\ \E pr \in UpdatePairs :
        LET res == soft_update(heap, net[pr[1]], net[pr[2]], TAU_NUM, TAU_DEN)
        IN  /\ heap' = res.heap
            /\ UNCHANGED <<net, grad, memory, x_noise, is_training, s_t, a_t,
                           files, critic_keys>>
            /\ Public([op |-> "soft_update", exc |-> res.exc,
                       target |-> pr[1], source |-> pr[2]])

\* the caller switches between training and inference (line 82 makes
\* is_training a public attribute)
SetTraining ==
    /\ CanCall
    /\ \E b \in BOOLEAN :
        /\ is_training' = b
        /\ UNCHANGED <<net, heap, grad, memory, x_noise, s_t, a_t, files,
                       critic_keys>>
        /\ Public([op |-> "set_training", exc |-> "none"])

Next ==
    \/ CallObserve
    \/ CallRandomAction
    \/ CallSelectAction
    \/ CallReset
    \/ CallSaveModel
    \/ CallLoadWeights
    \/ CallUpdatePolicy
    \/ CallHardUpdate
    \/ CallSoftUpdate
    \/ SetTraining

Spec == Init /\ [][Next]_vars

----------------------------------------------------------------------------
(* Properties of the public operations (checked under Spec)                *)

IsCall(name) == last'.op = name /\ calls' = calls + 1

\* C1: observe(r_t, s_t1, done) in training mode appends exactly one
\* transition, made of the s_t and a_t held before the call and of r_t and
\* done, and then s_t is s_t1; outside training mode it changes neither the
\* replay memory nor s_t.
C1_ObserveEffect ==
    [][IsCall("observe") =>
        IF is_training
        THEN /\ Len(memory') = Len(memory) + 1
             /\ SubSeq(memory', 1, Len(memory)) = memory
             /\ memory'[Len(memory')] =
                    [observation |-> s_t, action |-> a_t,
                     reward |-> last'.r_t, terminal |-> last'.done]
             /\ s_t' = <<last'.s_t1>>
        ELSE memory' = memory /\ s_t' = s_t]_vars

\* a training-mode observe has recorded a real observation and a real action
C1_Witness ==
    /\ last.op = "observe"
    /\ is_training
    /\ Len(memory) >= 1
    /\ memory[Len(memory)].observation # None
    /\ memory[Len(memory)].action # None
    /\ memory[Len(memory)].reward = last.r_t
    /\ s_t = <<last.s_t1>>

\* C2: soft_update(target, source, tau) returns normally, every target
\* parameter becomes target*(1-tau) + source*tau of its own old value, and
\* the source is unchanged.  (The blend is stated multiplied by TAU_DEN.)
C2_SoftUpdateBlends ==
    [][\A pr \in UpdatePairs :
        (IsCall("soft_update") /\ last'.target = pr[1]) =>
            /\ last'.exc = "none"
            /\ \A i \in 1 .. Len(heap[net[pr[1]]]) :
                  heap'[net[pr[1]]][i] * TAU_DEN =
                      heap[net[pr[1]]][i] * (TAU_DEN - TAU_NUM)
                      + heap[net[pr[2]]][i] * TAU_NUM
            /\ heap'[net[pr[2]]] = heap[net[pr[2]]]]_vars

\* The state right after construction: each target equals its online
\* network and is an object of its own.
C3_AfterConstruction ==
    /\ heap[net.actor_target] = heap[net.actor]
    /\ heap[net.critic_target] = heap[net.critic]
    /\ net.actor_target # net.actor
    /\ net.critic_target # net.critic

\* C3: after hard_update(target, source) the target's parameters equal the
\* source's, pair by pair, and the source is unchanged; right after
\* construction actor_target equals actor and critic_target equals critic,
\* and each target is an object of its own.
C3_HardUpdateExact ==
    /\ C3_AfterConstruction
    /\ [][\A pr \in UpdatePairs :
            (IsCall("hard_update") /\ last'.target = pr[1]) =>
                /\ heap'[net[pr[1]]] = heap[net[pr[2]]]
                /\ heap'[net[pr[2]]] = heap[net[pr[2]]]]_vars

\* a hard_update that changed its target
C3_Witness ==
    /\ last.op = "hard_update"
    /\ last.before # heap[net[last.target]]
    /\ heap[net[last.target]] = heap[net[last.source]]

\* C4: outside training mode select_action(s) returns actor(s), with no
\* noise, and stores it as a_t; so two calls in a row with the same s return
\* the same action.
C4_InferenceDeterministic ==
    (last.op = "select_action" /\ ~is_training) =>
        /\ last.exc = "none"
        /\ a_t = <<Actor(heap[net.actor], last.s)>>
        /\ last.ret = a_t

\* C7: load_weights(output) after save_model(output) gives the actor the
\* parameters saved for the actor and the critic the parameters saved for
\* the critic, without an error; load_weights(None) changes nothing.
C7_SaveLoadRoundTrip ==
    [][IsCall("load_weights") =>
        IF last'.output = None
        THEN heap' = heap
        ELSE files["actor.pth"] # None =>
                /\ last'.exc = "none"
                /\ heap'[net.actor] = files["actor.pth"][1].values
                /\ heap'[net.critic] = files["critic.pth"][1].values]_vars

----------------------------------------------------------------------------
(* SpecTrain: DDPG.train(num_iter, env, output, max_episode_length)        *)
(* (lines 170-211) on a freshly constructed agent.  env.reset() returns    *)
(* any start observation; output is an existing directory.  The loop body  *)
(* names the module global `agent` at lines 179 and 181; ddpg.py never     *)
(* binds it, so the name resolves only if the caller has bound it in the   *)
(* module (agent_bound, then to this very agent); otherwise Python raises  *)
(* NameError.  With `agent` bound, select_action at line 181 raises        *)
(* TypeError (to_tensor).  Every execution with num_iter >= 1 therefore    *)
(* leaves the loop in its first iteration, at line 179 or at line 181:     *)
(* lines 183-211 (env.step, observe, update_policy, the periodic save, the *)
(* counters and the end of an episode) are never reached and have no       *)
(* action.                                                                 *)

InitTrain ==
    /\ Constructed(InitWeights, InitWeights)
    /\ critic_keys \in CriticKeys
    /\ agent_bound \in BOOLEAN
    /\ pc = "loop"
    /\ num_iter \in 0 .. MaxIter
    /\ max_episode_length \in 0 .. MaxEpLen
    /\ step = 0
    /\ episode = 0
    /\ episode_steps = 0
    /\ episode_reward = 0
    /\ observation = None
    /\ exc = "none"

Raise(e) == pc' = "raised" /\ exc' = e

\* line 176: while step < num_iter; line 177: if observation is None
TrainWhile ==
    /\ pc = "loop"
    /\ pc' = IF step < num_iter
             THEN (IF observation = None THEN "reset" ELSE "select")
             ELSE "returned"
    /\ UNCHANGED <<agent_vars, last, calls, agent_bound, num_iter,
                   max_episode_length, step, episode, episode_steps,
                   episode_reward, observation, exc>>

\* lines 178-179: observation = deepcopy(env.reset()); agent.reset(observation)
TrainBeginEpisode ==
    /\ pc = "reset"
    /\ \E o \in EnvStart :
        /\ observation' = Some(o)
        /\ IF agent_bound
           THEN reset(o) /\ pc' = "select" /\ exc' = exc
           ELSE UNCHANGED agent_vars /\ Raise("NameError")
    /\ UNCHANGED <<last, calls, agent_bound, num_iter, max_episode_length,
                   step, episode, episode_steps, episode_reward>>

\* line 181: action = agent.select_action(observation)
TrainSelect ==
    /\ pc = "select"
    /\ IF agent_bound
       THEN \E g \in Gauss :
               /\ select_action(observation[1], g)
               /\ IF select_action_result(observation[1], g).exc = "none"
                  THEN pc' = "env_step" /\ exc' = exc
                  ELSE Raise(select_action_result(observation[1], g).exc)
       ELSE UNCHANGED agent_vars /\ Raise("NameError")
    /\ UNCHANGED <<last, calls, agent_bound, num_iter, max_episode_length,
                   step, episode, episode_steps, episode_reward, observation>>

NextTrain ==
    \/ TrainWhile
    \/ TrainBeginEpisode
    \/ TrainSelect

SpecTrain == InitTrain /\ [][NextTrain]_vars

----------------------------------------------------------------------------
(* Properties of train (checked under SpecTrain)                           *)

\* C10: for num_iter >= 1 train raises nothing, and when it returns it has
\* made exactly num_iter environment steps.
C10_TrainCompletes ==
    num_iter >= 1 =>
        /\ pc # "raised"
        /\ (pc = "returned" => step = num_iter)

====
